---- MODULE Spec2Model ----
(***************************************************************************)
(* Model of src/main.py: the "Excel Temperature Checker".                  *)
(*                                                                         *)
(* A workbook is a sequence of sheets; a sheet is a title and the cells it *)
(* stores.  Text is a sequence of one-character strings, so that lower(),  *)
(* `in`, startswith() and re.search() are computed, not assumed.           *)
(*                                                                         *)
(* A number cell is a Python int or a Python float.  A float is kept as    *)
(* the integer n that stands for the double n / Scale, Scale a power of    *)
(* two: every such double is exact, so are the differences the program     *)
(* takes, and round(x, 2) is decided on the exact value as CPython does.   *)
(*                                                                         *)
(* openpyxl creates a cell when it is asked for one: reading outside the   *)
(* stored cells adds empty cells to the sheet and can widen its occupied   *)
(* rectangle.  Every read of the program is modelled with that effect.     *)
(* Saving writes no cell that is empty and has no style, and the uploaded  *)
(* workbooks carry no styles, so a saved sheet holds its non-empty cells.  *)
(***************************************************************************)
EXTENDS Integers, Sequences, FiniteSets, TLC

VARIABLES file, status, detected, missing, warned, offset, room_mapping, min_mapping, max_mapping, sheets, book, fills, output, runs, first

vars == <<file, status, detected, missing, warned, offset, room_mapping, min_mapping, max_mapping, sheets, book, fills, output, runs, first>>

(***************************************************************************)
(* Python built-ins on integers and text                                   *)
(***************************************************************************)
SetMin(S) == CHOOSE x \in S : \A y \in S : x <= y

SetMax(S) == CHOOSE x \in S : \A y \in S : y <= x

\* max(a, b)
PyMax(a, b) == IF a >= b THEN a ELSE b

UpperCase == <<"A","B","C","D","E","F","G","H","I","J","K","L","M","N","O","P","Q","R","S","T","U","V","W","X","Y","Z">>

LowerCase == <<"a","b","c","d","e","f","g","h","i","j","k","l","m","n","o","p","q","r","s","t","u","v","w","x","y","z">>

DigitChars == <<"0","1","2","3","4","5","6","7","8","9">>

Digits == {DigitChars[i] : i \in 1..Len(DigitChars)}

\* the lower-case letter of each upper-case letter
LowerOf == [ch \in {UpperCase[i] : i \in 1..Len(UpperCase)} |-> LowerCase[CHOOSE i \in 1..Len(UpperCase) : UpperCase[i] = ch]]

LowerChar(ch) == IF ch \in DOMAIN LowerOf THEN LowerOf[ch] ELSE ch

\* str.lower()
lower(s) == [i \in 1..Len(s) |-> LowerChar(s[i])]

\* `kw in s` on two strings
Contains(kw, s) == \E i \in 1..(Len(s) - Len(kw) + 1) : SubSeq(s, i, i + Len(kw) - 1) = kw

\* s.startswith(p)
StartsWith(s, p) == Len(s) >= Len(p) /\ SubSeq(s, 1, Len(p)) = p

\* int(s) of a string of digits
RECURSIVE ToInt(_)
ToInt(s) == IF s = <<>> THEN 0 ELSE 10 * ToInt(SubSeq(s, 1, Len(s) - 1)) + ((CHOOSE i \in 1..Len(DigitChars) : DigitChars[i] = s[Len(s)]) - 1)

\* str(n) of an int n >= 0
RECURSIVE ToStr(_)
ToStr(n) == IF n < 10 THEN <<DigitChars[n + 1]>> ELSE ToStr(n \div 10) \o <<DigitChars[(n % 10) + 1]>>

(***************************************************************************)
(* Cell values: None, an int, a float, or a string.  n is the number in    *)
(* units of 1 / Scale (the int 22 has n = 22 * Scale).  A string is its    *)
(* literal characters s, followed, when f is not empty, by the text of one *)
(* formatted number: the int or float of n hundredths (nz: the float is    *)
(* -0.0).  The f-strings of process_excel build exactly such strings; the  *)
(* text of a number holds digits, a sign and a point, so no keyword, no    *)
(* sensor ID and no fill prefix can reach into it.                         *)
(***************************************************************************)
Scale == 256

None == [k |-> "none", n |-> 0, s |-> <<>>, f |-> "", nz |-> FALSE]

PyInt(i) == [k |-> "int", n |-> i * Scale, s |-> <<>>, f |-> "", nz |-> FALSE]

\* the float x / Scale
PyFloat(x) == [k |-> "float", n |-> x, s |-> <<>>, f |-> "", nz |-> FALSE]

Str(t) == [k |-> "str", n |-> 0, s |-> t, f |-> "", nz |-> FALSE]

\* f"{prefix}{diff}" for a number diff of the given type, in hundredths
FStr(prefix, type, diff, negzero) == [k |-> "str", n |-> diff, s |-> prefix, f |-> type, nz |-> negzero]

\* isinstance(v, (int, float))
IsNumber(v) == v.k \in {"int", "float"}

\* `v and isinstance(v, str)`: a non-empty string
IsText(v) == v.k = "str" /\ (v.s # <<>> \/ v.f # "")

\* num / den rounded to the nearest integer, a tie to the even one (den > 0)
RoundHalfEven(num, den) == LET a == IF num < 0 THEN -num ELSE num q == a \div den r == a % den m == IF 2 * r < den THEN q ELSE IF 2 * r > den THEN q + 1 ELSE IF q % 2 = 0 THEN q ELSE q + 1 IN IF num < 0 THEN -m ELSE m

\* round(x, 2) of the float x / Scale, in hundredths: CPython rounds the exact
\* value of the double correctly, and a value half-way goes to the even side
Round2(x) == RoundHalfEven(100 * x, Scale)

(***************************************************************************)
(* Sheets (openpyxl worksheets): [title, cells], cells a function on the   *)
(* coordinates <<row, column>> of the cells the sheet stores.              *)
(***************************************************************************)
\* sheet.cell(row=r, column=c).value
CellValue(sheet, r, c) == IF <<r, c>> \in DOMAIN sheet.cells THEN sheet.cells[<<r, c>>] ELSE None

\* the sheet after its cells at the coordinates P were asked for: those that
\* were not stored are created empty
Touch(sheet, P) == [title |-> sheet.title, cells |-> [p \in DOMAIN sheet.cells \cup P |-> CellValue(sheet, p[1], p[2])]]

\* the sheet after sheet.cell(row=r, column=c)
cell(sheet, r, c) == Touch(sheet, {<<r, c>>})

min_row(sheet) == IF DOMAIN sheet.cells = {} THEN 1 ELSE SetMin({p[1] : p \in DOMAIN sheet.cells})

max_row(sheet) == IF DOMAIN sheet.cells = {} THEN 1 ELSE SetMax({p[1] : p \in DOMAIN sheet.cells})

min_column(sheet) == IF DOMAIN sheet.cells = {} THEN 1 ELSE SetMin({p[2] : p \in DOMAIN sheet.cells})

max_column(sheet) == IF DOMAIN sheet.cells = {} THEN 1 ELSE SetMax({p[2] : p \in DOMAIN sheet.cells})

\* the occupied rectangle
Rect(sheet) == (min_row(sheet)..max_row(sheet)) \X (min_column(sheet)..max_column(sheet))

\* wb.sheetnames
sheetnames(wb) == [i \in 1..Len(wb) |-> wb[i].title]

\* the position of wb[name]: the first sheet with that title
SheetIndex(wb, name) == SetMin({i \in 1..Len(wb) : wb[i].title = name})

(***************************************************************************)
(* auto_detect_sheets                                                      *)
(***************************************************************************)
Roles == {"Max", "Min", "Midband", "Room Data"}

\* the order of the keys of role_keywords, which the second pass follows
RoleOrder == <<"Max", "Min", "Midband", "Room Data">>

\* None as a detected sheet (a real title is never empty)
NoSheet == <<>>

role_keywords == [role \in Roles |-> CASE role = "Max" -> {<<"m","a","x">>, <<"m","a","x","i","m","u","m">>} [] role = "Min" -> {<<"m","i","n">>, <<"m","i","n","i","m","u","m">>} [] role = "Midband" -> {<<"m","i","d","b","a","n","d">>} [] role = "Room Data" -> {<<"s","e","n","s","e","d"," ","v","a","l","u","e">>, <<"r","o","o","m">>}]

\* any(keyword in text for keyword in role_keywords[role])
AnyKeywordIn(role, text) == \E keyword \in role_keywords[role] : Contains(keyword, text)

\* the side of the top-left block the second pass reads
ScanBlock == 10

\* first pass, from sheet i on: a title claims every still-empty role it matches
RECURSIVE TitlePass(_, _, _)
TitlePass(wb, i, det) == IF i > Len(wb) THEN det ELSE TitlePass(wb, i + 1, [role \in Roles |-> IF AnyKeywordIn(role, lower(wb[i].title)) /\ det[role] = NoSheet THEN wb[i].title ELSE det[role]])

\* the rows of the block (rows and columns 1..10) with a text cell that holds a
\* keyword of the role
MatchRows(sheet, role) == {p[1] : p \in {q \in DOMAIN sheet.cells : q[1] <= ScanBlock /\ q[2] <= ScanBlock /\ IsText(sheet.cells[q]) /\ AnyKeywordIn(role, lower(sheet.cells[q].s))}}

\* the scan of the sheet's block sets detected[role]
BlockHasKeyword(sheet, role) == MatchRows(sheet, role) # {}

\* the sheet as the scan leaves it: iter_rows creates each row it hands out,
\* columns 1..10, and the scan stops after the first row with a keyword
BlockRead(sheet, role) == LET rows == MatchRows(sheet, role) IN Touch(sheet, (1..(IF rows # {} THEN SetMin(rows) ELSE ScanBlock)) \X (1..ScanBlock))

\* second pass for one role, from sheet i on: the title found and the workbook
\* as the scans leave it
RECURSIVE ContentScan(_, _, _)
ContentScan(wb, role, i) == IF i > Len(wb) THEN [title |-> NoSheet, wb |-> wb] ELSE IF BlockHasKeyword(wb[i], role) THEN [title |-> wb[i].title, wb |-> [wb EXCEPT ![i] = BlockRead(wb[i], role)]] ELSE ContentScan([wb EXCEPT ![i] = BlockRead(wb[i], role)], role, i + 1)

RECURSIVE ContentPassAlways(_, _, _)
ContentPassAlways(wb, det, k) == IF k > Len(RoleOrder) THEN [detected |-> det, wb |-> wb] ELSE LET scan == ContentScan(wb, RoleOrder[k], 1) IN ContentPassAlways(scan.wb, [det EXCEPT ![RoleOrder[k]] = IF scan.title # NoSheet THEN scan.title ELSE det[RoleOrder[k]]], k + 1)

\* second pass, from the k-th role on: only a role still None is scanned for
RECURSIVE ContentPass(_, _, _)
ContentPass(wb, det, k) == IF k > Len(RoleOrder) THEN [detected |-> det, wb |-> wb] ELSE IF det[RoleOrder[k]] # NoSheet THEN ContentPass(wb, det, k + 1) ELSE LET scan == ContentScan(wb, RoleOrder[k], 1) IN ContentPass(scan.wb, [det EXCEPT ![RoleOrder[k]] = scan.title], k + 1)

\* the mapping returned, and the workbook as the call leaves it
auto_detect_sheets(wb) == ContentPass(wb, TitlePass(wb, 1, [role \in Roles |-> NoSheet]), 1)

(***************************************************************************)
(* detect_data_offset                                                      *)
(***************************************************************************)
\* the rows that hold a number (a stored cell lies in the occupied rectangle)
NumericRows(sheet) == {p[1] : p \in {q \in DOMAIN sheet.cells : IsNumber(sheet.cells[q])}}

\* where the scan breaks: <<data_start_row, data_start_col>>
FirstNumeric(sheet) == LET r0 == SetMin(NumericRows(sheet)) IN <<r0, SetMin({p[2] : p \in {q \in DOMAIN sheet.cells : q[1] = r0 /\ IsNumber(sheet.cells[q])}})>>

\* the cells the scan asks for: the rectangle in row-major order, up to the break
OffsetReads(sheet) == IF NumericRows(sheet) = {} THEN Rect(sheet) ELSE LET brk == FirstNumeric(sheet) IN {p \in Rect(sheet) : p[1] < brk[1] \/ (p[1] = brk[1] /\ p[2] <= brk[2])}

HeaderStartMin(sheet_min, data_start, count) == IF sheet_min <= data_start - count THEN sheet_min ELSE data_start - count

\* max(sheet.min_row, data_start_row - header_rows_count)
HeaderStart(sheet_min, data_start, count) == PyMax(sheet_min, data_start - count)

\* the tuple returned, and the sheet as the call leaves it
detect_data_offset(sheet, header_rows_count, header_cols_count) == [offset |-> IF NumericRows(sheet) # {} THEN LET brk == FirstNumeric(sheet) IN <<HeaderStart(min_row(sheet), brk[1], header_rows_count), HeaderStart(min_column(sheet), brk[2], header_cols_count), brk[1], brk[2]>> ELSE <<min_row(sheet), min_column(sheet), min_row(sheet), min_column(sheet)>>, sheet |-> Touch(sheet, OffsetReads(sheet))]

(***************************************************************************)
(* build_sensor_mapping                                                    *)
(***************************************************************************)
\* re.search found nothing / dict.get found nothing
NoMatch == <<>>

\* the pattern OC\d+ can start at position i of s
MatchesAt(s, i) == i + 2 <= Len(s) /\ s[i] = "O" /\ s[i + 1] = "C" /\ s[i + 2] \in Digits

\* \d is greedy: the last index of the run of digits that follows index j
RECURSIVE DigitsEnd(_, _)
DigitsEnd(s, j) == IF j + 1 <= Len(s) /\ s[j + 1] \in Digits THEN DigitsEnd(s, j + 1) ELSE j

RECURSIVE SearchFrom(_, _)
SearchFrom(s, i) == IF i > Len(s) THEN NoMatch ELSE IF MatchesAt(s, i) THEN SubSeq(s, i, DigitsEnd(s, i + 2)) ELSE SearchFrom(s, i + 1)

\* re.match: the pattern only at the start of the text
re_match_OC(s) == IF MatchesAt(s, 1) THEN SubSeq(s, 1, DigitsEnd(s, 3)) ELSE NoMatch

\* re.search(r"OC\d+", s).group(), or NoMatch
re_search_OC(s) == SearchFrom(s, 1)

\* the sensor ID a header cell carries, or NoMatch
SensorId(header_val) == IF IsText(header_val) THEN re_search_OC(header_val.s) ELSE NoMatch

EmptyMap == [x \in {} |-> 0]

PutIfAbsent(mapping, key, col) == [x \in DOMAIN mapping \cup {key} |-> IF x \in DOMAIN mapping THEN mapping[x] ELSE col]

\* mapping[key] = col
Put(mapping, key, col) == [x \in DOMAIN mapping \cup {key} |-> IF x = key THEN col ELSE mapping[x]]

\* mapping.get(key); 0 stands for None (a column index is at least 1)
Get(mapping, key) == IF key \in DOMAIN mapping THEN mapping[key] ELSE 0

\* the header row where sensor IDs are read
header_row == 2

\* the loop from column col to column last, the end of the range taken at the call
RECURSIVE MappingFrom(_, _, _, _, _)
MappingFrom(sheet, hrow, col, last, mapping) == IF col > last THEN mapping ELSE MappingFrom(sheet, hrow, col + 1, last, IF SensorId(CellValue(sheet, hrow, col)) # NoMatch THEN Put(mapping, SensorId(CellValue(sheet, hrow, col)), col) ELSE mapping)

\* the mapping returned, and the sheet as the call leaves it: the loop asks
\* for the cell of the header row in every column of the rectangle
build_sensor_mapping(sheet, hrow) == [mapping |-> MappingFrom(sheet, hrow, min_column(sheet), max_column(sheet), EmptyMap), sheet |-> Touch(sheet, {hrow} \X (min_column(sheet)..max_column(sheet)))]

(***************************************************************************)
(* process_excel                                                           *)
(***************************************************************************)
ResultTitle == <<"R","e","s","u","l","t">>

header_rows_count == 3

header_cols_count == 2

RequiredRoles == <<"Room Data", "Min", "Max">>

RequiredRolesAll == <<"Room Data", "Min", "Max", "Midband">>

missing_sheets_all(det) == SelectSeq(RequiredRolesAll, LAMBDA name : det[name] = NoSheet)

\* the names the error message lists, in its order
missing_sheets(det) == SelectSeq(RequiredRoles, LAMBDA name : det[name] = NoSheet)

blue_fill == "ADD8E6"

green_fill == "90EE90"

red_fill == "FFC7CE"

NoFill == "none"

LowPrefix == <<"l","o","w",":"," ">>

HighPrefix == <<"h","i","g","h",":"," ">>

OkText == <<"o","k">>

\* f"{prefix}{round(a - b, 2)}": two ints give an int, which round() returns as
\* it is; otherwise the difference is a float
Diff(prefix, a, b) == IF a.k = "int" /\ b.k = "int" THEN FStr(prefix, "int", 100 * ((a.n - b.n) \div Scale), FALSE) ELSE FStr(prefix, "float", Round2(a.n - b.n), a.n - b.n < 0 /\ Round2(a.n - b.n) = 0)

ClassifyStrict(room_value, min_value, max_value) == IF room_value.n < min_value.n THEN Diff(LowPrefix, room_value, min_value) ELSE IF room_value.n > max_value.n THEN Diff(HighPrefix, room_value, max_value) ELSE Str(OkText)

\* the branch taken when the three values are numbers
Classify(room_value, min_value, max_value) == IF room_value.n <= min_value.n THEN Diff(LowPrefix, room_value, min_value) ELSE IF room_value.n >= max_value.n THEN Diff(HighPrefix, room_value, max_value) ELSE Str(OkText)

\* new_value of a cell of the data area whose column carries sensor_id
DataValue(room_value, sensor_id, min_sheet, max_sheet, min_map, max_map, r) == IF Get(min_map, sensor_id) # 0 /\ Get(max_map, sensor_id) # 0 THEN (IF IsNumber(room_value) /\ IsNumber(CellValue(min_sheet, r, Get(min_map, sensor_id))) /\ IsNumber(CellValue(max_sheet, r, Get(max_map, sensor_id))) THEN Classify(room_value, CellValue(min_sheet, r, Get(min_map, sensor_id)), CellValue(max_sheet, r, Get(max_map, sensor_id))) ELSE room_value) ELSE room_value

\* new_value of the Room cell (r, c)
NewValue(room_sheet, min_sheet, max_sheet, min_map, max_map, start_row, start_col, r, c) == IF r < start_row \/ c < start_col THEN CellValue(room_sheet, r, c) ELSE IF SensorId(CellValue(room_sheet, header_row, c)) # NoMatch THEN DataValue(CellValue(room_sheet, r, c), SensorId(CellValue(room_sheet, header_row, c)), min_sheet, max_sheet, min_map, max_map, r) ELSE CellValue(room_sheet, r, c)

\* the cells of the data area for which the Min and the Max sheet are read
BoundRead(room_sheet, min_map, max_map, start_row, start_col) == {p \in Rect(room_sheet) : p[1] >= start_row /\ p[2] >= start_col /\ SensorId(CellValue(room_sheet, header_row, p[2])) # NoMatch /\ Get(min_map, SensorId(CellValue(room_sheet, header_row, p[2]))) # 0 /\ Get(max_map, SensorId(CellValue(room_sheet, header_row, p[2]))) # 0}

\* the cells of a bound sheet the loop asks for: row r, the column its map gives
BoundCells(room_sheet, mapping, read) == {<<p[1], Get(mapping, SensorId(CellValue(room_sheet, header_row, p[2])))>> : p \in read}

FillAnywhere(new_value, start_row, start_col, r, c) == IF new_value.k = "str" THEN (IF StartsWith(new_value.s, SubSeq(LowPrefix, 1, 4)) THEN blue_fill ELSE IF StartsWith(new_value.s, SubSeq(HighPrefix, 1, 5)) THEN red_fill ELSE IF new_value.s = OkText /\ new_value.f = "" THEN green_fill ELSE NoFill) ELSE NoFill

\* the fill the Result cell (r, c) gets
Fill(new_value, start_row, start_col, r, c) == IF r >= start_row /\ c >= start_col /\ new_value.k = "str" THEN (IF StartsWith(new_value.s, SubSeq(LowPrefix, 1, 4)) THEN blue_fill ELSE IF StartsWith(new_value.s, SubSeq(HighPrefix, 1, 5)) THEN red_fill ELSE IF new_value.s = OkText /\ new_value.f = "" THEN green_fill ELSE NoFill) ELSE NoFill

\* the Result sheet's cells: one per cell of the Room sheet's rectangle
ResultCells(room_sheet, min_sheet, max_sheet, min_map, max_map, off) == [p \in Rect(room_sheet) |-> NewValue(room_sheet, min_sheet, max_sheet, min_map, max_map, off[3], off[4], p[1], p[2])]

\* if "Result" in wb.sheetnames: wb.remove(wb["Result"])
RemoveSheet(wb, name) == IF \E i \in 1..Len(wb) : wb[i].title = name THEN [i \in 1..(Len(wb) - 1) |-> IF i < SheetIndex(wb, name) THEN wb[i] ELSE wb[i + 1]] ELSE wb

\* ",".join(names)
RECURSIVE Join(_)
Join(names) == IF names = <<>> THEN <<>> ELSE IF Len(names) = 1 THEN names[1] ELSE names[1] \o <<",">> \o Join(Tail(names))

\* the counts of the matches of value, whatever the case of its letters, with
\* digits after it, from position i of text on (a match takes a comma with it)
RECURSIVE TitleCounts(_, _, _)
TitleCounts(text, value, i) == IF i + Len(value) - 1 > Len(text) THEN {} ELSE IF lower(SubSeq(text, i, i + Len(value) - 1)) = lower(value) THEN (IF DigitsEnd(text, i + Len(value) - 1) >= i + Len(value) THEN {ToInt(SubSeq(text, i + Len(value), DigitsEnd(text, i + Len(value) - 1)))} ELSE {}) \cup TitleCounts(text, value, IF DigitsEnd(text, i + Len(value) - 1) + 1 <= Len(text) /\ text[DigitsEnd(text, i + Len(value) - 1) + 1] = "," THEN DigitsEnd(text, i + Len(value) - 1) + 2 ELSE DigitsEnd(text, i + Len(value) - 1) + 1) ELSE TitleCounts(text, value, i + 1)

\* the title create_sheet gives the new sheet: the one asked for, unless a sheet
\* carries it in some letter case; then the next free number is added to it
AvoidDuplicateName(names, value) == IF \E i \in 1..Len(names) : lower(names[i]) = lower(value) THEN value \o ToStr((IF TitleCounts(Join(names), value, 1) = {} THEN 0 ELSE SetMax(TitleCounts(Join(names), value, 1))) + 1) ELSE value

\* any old Result sheet removed, the new one appended under its title
CreateSheet(wb, title, cells) == Append(RemoveSheet(wb, title), [title |-> AvoidDuplicateName(sheetnames(RemoveSheet(wb, title)), title), cells |-> cells])

\* the sheet create_sheet("Result") appended
ResultSheet(wb) == wb[Len(wb)]

\* a number as it is read back from the saved file: a float without a
\* fractional part is written without a point and read as an int
SavedValue(v) == IF v.k = "float" /\ v.n % Scale = 0 THEN [v EXCEPT !.k = "int"] ELSE v

\* the cells of a sheet that wb.save writes: those with a value or a fill
SavedCells(cells, fill) == [p \in {q \in DOMAIN cells : cells[q] # None \/ (q \in DOMAIN fill /\ fill[q] # NoFill)} |-> SavedValue(cells[p])]

\* the workbook read back from wb.save(output); only the new sheet has fills
SavedBook(wb, fill) == [i \in 1..Len(wb) |-> [title |-> wb[i].title, cells |-> SavedCells(wb[i].cells, IF i = Len(wb) THEN fill ELSE <<>>)]]

\* process_excel returned None
NoOutput == <<>>

\* wb[name] for the three required roles (lines 110-112), and the values the
\* run has yet to compute
Located(scan) == [detected |-> scan.detected, wb |-> scan.wb, iRoom |-> SheetIndex(scan.wb, scan.detected["Room Data"]), iMin |-> SheetIndex(scan.wb, scan.detected["Min"]), iMax |-> SheetIndex(scan.wb, scan.detected["Max"]), room_mapping |-> EmptyMap, min_mapping |-> EmptyMap, max_mapping |-> EmptyMap, offset |-> <<>>, cells |-> <<>>, fills |-> <<>>]

\* the mapping m of sheet i is kept, and the sheet as the mapper left it
SetMapping(s, i, name, m) == [s EXCEPT ![name] = m.mapping, !.wb = [s.wb EXCEPT ![i] = m.sheet]]

\* line 115
MapRoom(s) == SetMapping(s, s.iRoom, "room_mapping", build_sensor_mapping(s.wb[s.iRoom], header_row))

\* line 116
MapMin(s) == SetMapping(s, s.iMin, "min_mapping", build_sensor_mapping(s.wb[s.iMin], header_row))

\* line 117
MapMax(s) == SetMapping(s, s.iMax, "max_mapping", build_sensor_mapping(s.wb[s.iMax], header_row))

SetOffset(s, d) == [s EXCEPT !.offset = d.offset, !.wb = [s.wb EXCEPT ![s.iRoom] = d.sheet]]

\* line 120
Offset(s) == SetOffset(s, detect_data_offset(s.wb[s.iRoom], header_rows_count, header_cols_count))

\* the cells P of sheet i have been read
TouchSheet(wb, i, P) == [wb EXCEPT ![i] = Touch(wb[i], P)]

\* the reads of the two loops: every cell of the Room sheet, and the bound
\* cells of the Min and the Max sheet
LoopReads(wb, room_sheet, iRoom, iMin, iMax, min_map, max_map, read) == TouchSheet(TouchSheet(TouchSheet(wb, iRoom, Rect(room_sheet)), iMin, BoundCells(room_sheet, min_map, read)), iMax, BoundCells(room_sheet, max_map, read))

SetCells(s, cells, read) == [s EXCEPT !.cells = cells, !.fills = [p \in DOMAIN cells |-> Fill(cells[p], s.offset[3], s.offset[4], p[1], p[2])], !.wb = LoopReads(s.wb, s.wb[s.iRoom], s.iRoom, s.iMin, s.iMax, s.min_mapping, s.max_mapping, read)]

\* lines 133-183
Loops(s) == SetCells(s, ResultCells(s.wb[s.iRoom], s.wb[s.iMin], s.wb[s.iMax], s.min_mapping, s.max_mapping, s.offset), BoundRead(s.wb[s.iRoom], s.min_mapping, s.max_mapping, s.offset[3], s.offset[4]))

\* what a run that goes through returns and leaves behind; final is the
\* workbook with the new Result sheet
Finished(s, final) == [returned |-> SavedBook(final, s.fills), detected |-> s.detected, missing |-> <<>>, warned |-> (s.detected["Midband"] = NoSheet), room_mapping |-> s.room_mapping, min_mapping |-> s.min_mapping, max_mapping |-> s.max_mapping, offset |-> s.offset, sheets |-> [room |-> s.wb[s.iRoom], min |-> s.wb[s.iMin], max |-> s.wb[s.iMax]], wb |-> final, fills |-> s.fills]

\* lines 123-125 and 185-188; the cells were computed on the sheets as they
\* were before the Result sheet was replaced
Saved(s) == Finished(s, CreateSheet(s.wb, ResultTitle, s.cells))

\* lines 99-108: the run stops when a required sheet is missing
Checked(scan) == IF missing_sheets(scan.detected) # <<>> THEN [returned |-> NoOutput, detected |-> scan.detected, missing |-> missing_sheets(scan.detected), wb |-> scan.wb] ELSE Saved(Loops(Offset(MapMax(MapMin(MapRoom(Located(scan)))))))

\* one run on the loaded workbook wb0: what it returns, what it computes on
\* the way, and the workbook object as it leaves it
process_excel(wb0) == Checked(auto_detect_sheets(wb0))

(***************************************************************************)
(* main: the upload, the run, and feeding the download back in             *)
(***************************************************************************)
\* the offset of a run that has not computed one
NoOffset == <<0, 0, 0, 0>>

\* how many times one session runs process_excel
MaxRuns == 2

NoRun == [ran |-> FALSE, detected |-> [role \in Roles |-> NoSheet], result |-> <<>>, fills |-> <<>>]

\* the fills of the cells the saved Result sheet holds
SavedFills(saved, fill) == [p \in DOMAIN ResultSheet(saved).cells |-> fill[p]]

\* the run stops at the missing-sheets check: st.error, return None
\* the return at line 106 comes before the warning, the mappings, the offset
\* and the loops: this run has none of them
Stopped(run) ==
    /\ status = "uploaded"
    /\ run.returned = NoOutput
    /\ detected' = run.detected
    /\ missing' = run.missing
    /\ book' = run.wb
    /\ output' = NoOutput
    /\ status' = "failed"
    /\ runs' = runs + 1
    /\ warned' = FALSE
    /\ offset' = NoOffset
    /\ room_mapping' = EmptyMap
    /\ min_mapping' = EmptyMap
    /\ max_mapping' = EmptyMap
    /\ sheets' = <<>>
    /\ fills' = <<>>
    /\ UNCHANGED <<file, first>>

ProcessMissing == Stopped(process_excel(file))

\* the run goes through: the Result sheet is rebuilt and the workbook saved
WentThrough(run) ==
    /\ status = "uploaded"
    /\ run.returned # NoOutput
    /\ detected' = run.detected
    /\ missing' = run.missing
    /\ warned' = run.warned
    /\ room_mapping' = run.room_mapping
    /\ min_mapping' = run.min_mapping
    /\ max_mapping' = run.max_mapping
    /\ offset' = run.offset
    /\ sheets' = run.sheets
    /\ book' = run.wb
    /\ fills' = run.fills
    /\ output' = run.returned
    /\ first' = (IF first.ran THEN first ELSE [ran |-> TRUE, detected |-> run.detected, result |-> ResultSheet(run.returned), fills |-> SavedFills(run.returned, run.fills)])
    /\ status' = "done"
    /\ runs' = runs + 1
    /\ UNCHANGED file

ProcessOk == WentThrough(process_excel(file))

\* the downloaded workbook is uploaded again
Reupload ==
    /\ status = "done"
    /\ runs < MaxRuns
    /\ file' = output
    /\ status' = "uploaded"
    /\ UNCHANGED <<detected, missing, warned, offset, room_mapping, min_mapping, max_mapping, sheets, book, fills, output, runs, first>>

Next == ProcessMissing \/ ProcessOk \/ Reupload

(***************************************************************************)
(* The workbooks a session may upload                                      *)
(***************************************************************************)
T_Data == <<"D","a","t","a">>

T_MinTemp == <<"M","i","n"," ","T","e","m","p">>

T_MaxTemp == <<"M","a","x"," ","T","e","m","p">>

T_RoomSensed == <<"R","o","o","m"," ","S","e","n","s","e","d"," ","V","a","l","u","e">>

T_Midband == <<"M","i","d","b","a","n","d">>

T_Sheet1 == <<"S","h","e","e","t","1">>

T_MinMax == <<"M","I","N"," ","M","A","X">>

T_Room == <<"R","o","o","m">>

T_RESULT == <<"R","E","S","U","L","T">>

T_result == <<"r","e","s","u","l","t">>

T_Result4 == <<"R","e","s","u","l","t","4">>

X_Time == <<"T","i","m","e">>

X_t1 == <<"t","1">>

X_x == <<"x">>

X_na == <<"n","/","a">>

X_Log == <<"L","o","g">>

X_Limits == <<"L","i","m","i","t","s">>

X_MinSetpoint == <<"M","i","n","i","m","u","m"," ","s","e","t","p","o","i","n","t">>

X_RoomMax == <<"R","o","o","m"," ","/"," ","M","a","x">>

X_midband == <<"m","i","d","b","a","n","d">>

X_lowText == <<"l","o","w",":"," ","s","e","n","s","o","r"," ","f","a","u","l","t">>

X_highText == <<"h","i","g","h",":"," ","s","e","e"," ","n","o","t","e">>

H_OC11 == <<"O","C","1","1">>

H_OC12 == <<"O","C","1","2">>

H_OC99 == <<"O","C","9","9">>

H_OC123 == <<"O","C","1","2","3">>

H_Two == <<"T"," ","O","C","1","2"," ","O","C","1","1">>

H_AB12 == <<"A","B","1","2">>

H_oc12 == <<"o","c","1","2">>

H_OC == <<"O","C">>

\* the cells of a sheet as a file holds them: an empty cell is not stored
NonEmpty(cells) == [p \in {q \in DOMAIN cells : cells[q] # None} |-> cells[p]]

\* a sheet with a label in A1, a header row 2 and one data row 3, columns 1..3
DataSheet(title, a1, h2, h3, v2, v3) == [title |-> title, cells |-> NonEmpty((<<1, 1>> :> a1) @@ (<<2, 1>> :> Str(X_Time)) @@ (<<2, 2>> :> h2) @@ (<<2, 3>> :> h3) @@ (<<3, 1>> :> Str(X_t1)) @@ (<<3, 2>> :> v2) @@ (<<3, 3>> :> v3))]

\* the longest workbook of the sheet-detection family
MaxSheets == 3

\* 19.99609375, 20.00390625, 25.00390625: next to a bound; 19.875, 25.375: an
\* eighth off a hundredth, where round(x, 2) meets a tie
F_19_996 == PyFloat(5119)

F_20_004 == PyFloat(5121)

F_25_004 == PyFloat(6401)

F_19_875 == PyFloat(5088)

F_25_375 == PyFloat(6496)

PoolData == DataSheet(T_Data, Str(X_Log), Str(H_OC11), Str(H_OC12), PyInt(22), PyInt(18))

PoolMin == DataSheet(T_MinTemp, Str(X_Limits), Str(H_OC11), Str(H_OC12), PyInt(20), PyInt(20))

PoolMax == DataSheet(T_MaxTemp, Str(X_Limits), Str(H_OC11), Str(H_OC12), PyInt(25), PyInt(25))

PoolRoom == DataSheet(T_RoomSensed, Str(OkText), Str(H_OC11), Str(H_OC12), PyInt(30), F_19_996)

\* a Result sheet left in the workbook, with a keyword of Min in A1
PoolResult == DataSheet(ResultTitle, Str(X_MinSetpoint), Str(H_OC11), Str(H_OC12), PyInt(21), PyInt(21))

\* keywords of Room Data and Max in A1, and one of Midband below the block
PoolSheet1 == [title |-> T_Sheet1, cells |-> DataSheet(T_Sheet1, Str(X_RoomMax), Str(H_OC11), Str(H_OC12), PyInt(24), PyInt(26)).cells @@ (<<ScanBlock + 1, 1>> :> Str(X_midband))]

PoolMinMax == DataSheet(T_MinMax, Str(X_Limits), Str(H_OC11), Str(H_OC12), PyInt(22), PyInt(22))

PoolMidband == DataSheet(T_Midband, Str(X_midband), Str(H_OC11), Str(H_OC12), PyInt(22), PyInt(22))

Pool == <<PoolMin, PoolMax, PoolRoom, PoolResult, PoolSheet1, PoolMinMax, PoolMidband>>

\* sheet detection: every workbook of up to MaxSheets different pool sheets, in
\* every order, and the workbook Data, Min Temp, Max Temp, Room Sensed Value
DetectionBooks == {[i \in 1..Len(ix) |-> Pool[ix[i]]] : ix \in {f \in UNION {[1..n -> 1..Len(Pool)] : n \in 1..MaxSheets} : \A i, j \in DOMAIN f : i # j => f[i] # f[j]}} \cup {<<PoolData, PoolMin, PoolMax, PoolRoom>>}

\* sheets whose title is Result in another letter case, or Result and a number
Titled(title) == DataSheet(title, Str(X_Log), Str(H_OC11), Str(H_OC12), PyInt(22), PyInt(22))

TitleBooks == {<<PoolRoom, PoolMin, PoolMax>> \o extra : extra \in {<<Titled(T_RESULT)>>, <<Titled(T_result)>>, <<Titled(T_result), Titled(T_Result4)>>, <<Titled(T_Result4)>>}}

SensedValues == {PyInt(18), F_19_875, F_19_996, PyInt(20), F_20_004, PyInt(22), PyInt(25), F_25_004, F_25_375, PyInt(30), Str(OkText), Str(X_lowText), Str(X_highText), Str(X_na), None}

FirstColumnValues == {PyInt(22), Str(X_na)}

RoomHeaders == {Str(H_OC12), Str(H_Two), Str(H_OC123), Str(H_AB12), Str(H_oc12), Str(H_OC), PyInt(12), None}

\* Min sheets: <<header of column 2, header of column 3, value of column 2, value of column 3>>
MinLayouts == {<<Str(H_OC11), Str(H_OC12), PyInt(20), PyInt(20)>>, <<Str(H_OC11), Str(H_OC12), PyInt(20), Str(X_na)>>, <<Str(H_OC11), Str(H_OC12), PyInt(20), None>>, <<Str(H_OC12), Str(H_OC11), PyInt(20), PyInt(10)>>, <<Str(H_OC12), Str(H_OC12), PyInt(10), PyInt(20)>>, <<Str(H_OC11), Str(H_OC99), PyInt(20), PyInt(20)>>}

MaxLayouts == {<<Str(H_OC11), Str(H_OC12), PyInt(25), PyInt(25)>>, <<Str(H_OC11), Str(H_OC12), PyInt(25), Str(X_na)>>, <<Str(H_OC11), Str(H_OC12), PyInt(25), PyInt(19)>>, <<Str(H_OC12), Str(H_OC12), PyInt(35), PyInt(25)>>, <<Str(H_OC11), Str(H_OC99), PyInt(25), PyInt(25)>>}

LayoutSheet(title, l) == DataSheet(title, Str(X_Limits), l[1], l[2], l[3], l[4])

\* the pairs of a Min and a Max layout of which one is the plain one
Layouts == {l \in MinLayouts \X MaxLayouts : l[1] = <<Str(H_OC11), Str(H_OC12), PyInt(20), PyInt(20)>> \/ l[2] = <<Str(H_OC11), Str(H_OC12), PyInt(25), PyInt(25)>>}

\* classification: one sensed cell against the Min and Max layouts
ClassifyBooks == {<<DataSheet(T_Room, Str(OkText), Str(H_OC11), Str(H_OC12), v2, v3), LayoutSheet(T_MinTemp, l[1]), LayoutSheet(T_MaxTemp, l[2])>> : v2 \in FirstColumnValues, v3 \in SensedValues, l \in Layouts}

\* identifiers: every header of the sensed column against the plain Min and Max sheets
HeaderBooks == {<<DataSheet(T_Room, Str(OkText), Str(H_OC11), h3, v2, v3), PoolMin, PoolMax>> : h3 \in RoomHeaders, v2 \in FirstColumnValues, v3 \in {PyInt(18), F_25_375, PyInt(22), Str(OkText), Str(X_lowText), None}}

\* a text grid with rows r0..6 and columns c0..4, IDs in row 2, numbers at the cells of P
GridSheet(r0, c0, P) == [title |-> T_Room, cells |-> [p \in (r0..6) \X (c0..4) |-> IF p \in P THEN PyInt(22) ELSE IF p[1] = header_row THEN Str(H_OC11) ELSE Str(X_x)]]

\* where the numbers of a grid lie: nowhere, in one cell, or in two cells of
\* rows 2, 5, 6 and columns 1, 3, 4
NumberCells == {{}} \cup {{p} : p \in (1..6) \X (1..4)} \cup {{p, q} : p, q \in {2, 5, 6} \X {1, 3, 4}}

\* data offset: grids that may start below the header row; the Midband sheet
\* lets every role be resolved by a title, so that no sheet is scanned
OffsetBooks == {<<GridSheet(r0, c0, P), PoolMin, PoolMax, PoolMidband>> : r0 \in 1..3, c0 \in 1..2, P \in NumberCells}

\* the same without a Midband sheet: every sheet is scanned before the run goes on
ScannedBooks == {<<GridSheet(r0, c0, P), PoolMin, PoolMax>> : r0 \in 1..3, c0 \in 1..2, P \in {{}} \cup {{p} : p \in {2, 5, 6} \X {1, 3, 4}}}

Workbooks == DetectionBooks \cup TitleBooks \cup ClassifyBooks \cup HeaderBooks \cup OffsetBooks \cup ScannedBooks

Init ==
    /\ file \in Workbooks
    /\ status = "uploaded"
    /\ detected = [role \in Roles |-> NoSheet]
    /\ missing = <<>>
    /\ warned = FALSE
    /\ offset = NoOffset
    /\ room_mapping = EmptyMap
    /\ min_mapping = EmptyMap
    /\ max_mapping = EmptyMap
    /\ sheets = <<>>
    /\ book = <<>>
    /\ fills = <<>>
    /\ output = NoOutput
    /\ runs = 0
    /\ first = NoRun

Spec == Init /\ [][Next]_vars

(***************************************************************************)
(* What the claims speak about, read off the state after a run             *)
(***************************************************************************)
\* the sheets of the three roles, as the run left them
RoomSheet == sheets.room

MinSheet == sheets.min

MaxSheet == sheets.max

\* the cells of the Room sheet outside the header band
DataCells == {p \in Rect(RoomSheet) : p[1] >= offset[3] /\ p[2] >= offset[4]}

\* the cells of the Room sheet inside the header band
HeaderCells == {p \in Rect(RoomSheet) : p[1] < offset[3] \/ p[2] < offset[4]}

SensedAt(p) == CellValue(RoomSheet, p[1], p[2])

ResultAt(p) == CellValue(ResultSheet(book), p[1], p[2])

\* the identifier of the sensed column of p
IdAt(p) == SensorId(CellValue(RoomSheet, header_row, p[2]))

LowerAt(p) == CellValue(MinSheet, p[1], Get(min_mapping, IdAt(p)))

UpperAt(p) == CellValue(MaxSheet, p[1], Get(max_mapping, IdAt(p)))

\* classification applies to the data cell p
Applies(p) == IdAt(p) # NoMatch /\ Get(min_mapping, IdAt(p)) # 0 /\ Get(max_mapping, IdAt(p)) # 0 /\ IsNumber(SensedAt(p)) /\ IsNumber(LowerAt(p)) /\ IsNumber(UpperAt(p))

IsLow(v) == v.k = "str" /\ v.f # "" /\ v.s = LowPrefix

IsHigh(v) == v.k = "str" /\ v.f # "" /\ v.s = HighPrefix

IsOk(v) == v = Str(OkText)

\* the three verdicts split the numeric triples with lo < hi as the claim says
VerdictSplit(p) == /\ (IsLow(ResultAt(p)) <=> SensedAt(p).n <= LowerAt(p).n) /\ (IsHigh(ResultAt(p)) <=> SensedAt(p).n >= UpperAt(p).n) /\ (IsOk(ResultAt(p)) <=> (LowerAt(p).n < SensedAt(p).n /\ SensedAt(p).n < UpperAt(p).n)) /\ Cardinality({x \in {"low", "high", "ok"} : (x = "low" /\ IsLow(ResultAt(p))) \/ (x = "high" /\ IsHigh(ResultAt(p))) \/ (x = "ok" /\ IsOk(ResultAt(p)))}) = 1

\* the delta d (in hundredths) is the difference x (in units of 1 / Scale)
IsDifference(d, x) == Scale * d = 100 * x

\* d is x rounded to two decimals: a hundredth at most half a hundredth away
\* from x, the even one when two are
IsRounded2(d, x) == 2 * (Scale * d - 100 * x) <= Scale /\ 2 * (100 * x - Scale * d) <= Scale /\ ((2 * (Scale * d - 100 * x) = Scale \/ 2 * (100 * x - Scale * d) = Scale) => d % 2 = 0)

\* C1 as stated: for numeric s, lo < hi the verdict is Low iff s <= lo, High iff
\* s >= hi, Ok iff lo < s < hi, exactly one of the three, and the delta of Low is
\* s - lo and the delta of High is s - hi.
C1_DeltaIsDifference == status = "done" => \A p \in DataCells : (Applies(p) /\ LowerAt(p).n < UpperAt(p).n) => /\ VerdictSplit(p) /\ (IsLow(ResultAt(p)) => IsDifference(ResultAt(p).n, SensedAt(p).n - LowerAt(p).n)) /\ (IsHigh(ResultAt(p)) => IsDifference(ResultAt(p).n, SensedAt(p).n - UpperAt(p).n))

\* C1 amended: the same split of the verdicts, with the delta of Low being
\* s - lo rounded to two decimals and the delta of High s - hi rounded to two
\* decimals; s = lo gives Low with delta 0 and s = hi gives High with delta 0.
C1_DeltaIsRounded == status = "done" => \A p \in DataCells : (Applies(p) /\ LowerAt(p).n < UpperAt(p).n) => /\ VerdictSplit(p) /\ (IsLow(ResultAt(p)) => IsRounded2(ResultAt(p).n, SensedAt(p).n - LowerAt(p).n)) /\ (IsHigh(ResultAt(p)) => IsRounded2(ResultAt(p).n, SensedAt(p).n - UpperAt(p).n)) /\ (SensedAt(p).n = LowerAt(p).n => IsLow(ResultAt(p)) /\ ResultAt(p).n = 0) /\ (SensedAt(p).n = UpperAt(p).n => IsHigh(ResultAt(p)) /\ ResultAt(p).n = 0)

\* a sensed value 1/256 under its lower bound has been classified Low with
\* delta -0.0, and one an eighth under it with delta -0.12
C1_Witness == status = "done" /\ \E p \in DataCells : Applies(p) /\ LowerAt(p).n < UpperAt(p).n /\ IsLow(ResultAt(p)) /\ ((SensedAt(p).n - LowerAt(p).n = -1 /\ ResultAt(p).n = 0 /\ ResultAt(p).nz) \/ (8 * (SensedAt(p).n - LowerAt(p).n) = -Scale /\ ResultAt(p).n = -12))

\* C2 as stated: a data cell to which classification does not apply appears in
\* the Result sheet with its sensed value unchanged and with no fill, whatever
\* that value is.
C2_UnclassifiedUntouched == status = "done" => \A p \in DataCells : ~Applies(p) => ResultAt(p) = SensedAt(p) /\ fills[p] = NoFill

\* C3: every cell of the Room sheet's header band appears in the Result sheet
\* with the same value and no fill.
C3_HeaderBandCopied == status = "done" => \A p \in HeaderCells : ResultAt(p) = SensedAt(p) /\ fills[p] = NoFill

\* a header-band cell holding the text "ok" has been copied
C3_Witness == status = "done" /\ \E p \in HeaderCells : SensedAt(p) = Str(OkText) /\ ResultAt(p) = Str(OkText) /\ DataCells # {}

\* the sheets whose lower-cased title holds a keyword of the role
TitleHits(wb, role) == {i \in 1..Len(wb) : \E kw \in role_keywords[role] : Contains(kw, lower(wb[i].title))}

\* the sheets with a text cell in rows 1..10, columns 1..10 holding such a keyword
BlockHits(wb, role) == {i \in 1..Len(wb) : \E q \in DOMAIN wb[i].cells : q[1] \in 1..10 /\ q[2] \in 1..10 /\ wb[i].cells[q].k = "str" /\ \E kw \in role_keywords[role] : Contains(kw, lower(wb[i].cells[q].s))}

\* the sheet C4 says a role resolves to
Resolved(wb, role) == IF TitleHits(wb, role) # {} THEN wb[SetMin(TitleHits(wb, role))].title ELSE IF BlockHits(wb, role) # {} THEN wb[SetMin(BlockHits(wb, role))].title ELSE NoSheet

\* C4: each role resolves to the first sheet whose title holds a keyword; only
\* when no title does, to the first sheet with a keyword in a text cell of its
\* top-left 10x10 block; otherwise it is unresolved.  The workbook Data, Min Temp,
\* Max Temp, Room Sensed Value gives Min Temp, Max Temp, Room Sensed Value and
\* no Midband.
C4_RoleDetection == status \in {"done", "failed"} => /\ (\A role \in Roles : detected[role] = Resolved(file, role)) /\ ((sheetnames(file) = <<T_Data, T_MinTemp, T_MaxTemp, T_RoomSensed>> /\ \A role \in Roles : BlockHits(file, role) = {}) => (detected["Min"] = T_MinTemp /\ detected["Max"] = T_MaxTemp /\ detected["Room Data"] = T_RoomSensed /\ detected["Midband"] = NoSheet))

\* one role was resolved by a title although an earlier sheet holds its keyword
\* in a cell, and another role was resolved by a cell
C4_Witness == status \in {"done", "failed"} /\ (\E role \in Roles : TitleHits(file, role) # {} /\ BlockHits(file, role) # {} /\ SetMin(BlockHits(file, role)) < SetMin(TitleHits(file, role)) /\ detected[role] = file[SetMin(TitleHits(file, role))].title) /\ (\E role \in Roles : TitleHits(file, role) = {} /\ detected[role] # NoSheet)

\* C5 as stated: no two roles are mapped to the same sheet.
C5_OneRolePerSheet == status \in {"done", "failed"} => \A r1, r2 \in Roles : (r1 # r2 /\ detected[r1] # NoSheet) => detected[r1] # detected[r2]

\* the sheets of a workbook with the values they hold
Values(wb) == [i \in 1..Len(wb) |-> [title |-> wb[i].title, cells |-> NonEmpty(wb[i].cells)]]

\* C6: a run fails exactly when Room Data, Min or Max is unresolved; it then names
\* exactly those roles, returns nothing and leaves the workbook with the sheets
\* it was loaded with, under their titles and with their values: no Result
\* sheet is created and none is removed.  Without a Midband sheet alone the run
\* goes through.
C6_MissingRequired == status \in {"done", "failed"} => /\ (status = "failed" <=> \E role \in {"Room Data", "Min", "Max"} : detected[role] = NoSheet) /\ (status = "failed" => /\ {missing[i] : i \in 1..Len(missing)} = {role \in {"Room Data", "Min", "Max"} : detected[role] = NoSheet} /\ output = NoOutput /\ Values(book) = file) /\ (status = "done" => missing = <<>> /\ output # NoOutput)

\* a run failed on a workbook that holds a Result sheet and a Midband sheet,
\* after its scan had read the sheets
C6_Witness == status = "failed" /\ (\E i \in 1..Len(file) : file[i].title = ResultTitle) /\ detected["Midband"] # NoSheet /\ (\E i \in 1..Len(book) : book[i].title = ResultTitle) /\ Len(missing) >= 1 /\ book # file

\* p comes before the cell (r, c) in row-major order
Before(p, r, c) == p[1] < r \/ (p[1] = r /\ p[2] < c)

\* C7: with a number in the sheet, the data start is the first numeric cell in
\* row-major order and each header start is the larger of the sheet's minimum and
\* the data start less the header size, so between the minimum and the data
\* start; with no number, all four values are the sheet's minimum row / column
\* and no cell is in the header band.
C7_DataOffset == status = "done" => IF \E p \in Rect(RoomSheet) : IsNumber(SensedAt(p)) THEN /\ <<offset[3], offset[4]>> \in Rect(RoomSheet) /\ IsNumber(CellValue(RoomSheet, offset[3], offset[4])) /\ (\A p \in Rect(RoomSheet) : Before(p, offset[3], offset[4]) => ~IsNumber(SensedAt(p))) /\ offset[1] = (IF min_row(RoomSheet) >= offset[3] - header_rows_count THEN min_row(RoomSheet) ELSE offset[3] - header_rows_count) /\ offset[2] = (IF min_column(RoomSheet) >= offset[4] - header_cols_count THEN min_column(RoomSheet) ELSE offset[4] - header_cols_count) /\ min_row(RoomSheet) <= offset[1] /\ offset[1] <= offset[3] /\ min_column(RoomSheet) <= offset[2] /\ offset[2] <= offset[4] ELSE offset = <<min_row(RoomSheet), min_column(RoomSheet), min_row(RoomSheet), min_column(RoomSheet)>> /\ HeaderCells = {}

\* the first number lies so deep in the sheet that both header starts are
\* above the sheet's minimum, and numbers follow it
C7_Witness == status = "done" /\ offset[1] > min_row(RoomSheet) /\ offset[2] > min_column(RoomSheet) /\ offset[1] < offset[3] /\ \E p \in Rect(RoomSheet) : IsNumber(SensedAt(p)) /\ p # <<offset[3], offset[4]>>

Letters == {UpperCase[i] : i \in 1..26} \cup {LowerCase[i] : i \in 1..26}

\* where a token of two letters and a digit starts in s
TwoLetterStarts(s) == {i \in 1..(Len(s) - 2) : s[i] \in Letters /\ s[i + 1] \in Letters /\ s[i + 2] \in Digits}

\* where a token of the letters OC and a digit starts in s
OCStarts(s) == {i \in 1..(Len(s) - 2) : s[i] = "O" /\ s[i + 1] = "C" /\ s[i + 2] \in Digits}

\* the token that starts at i: two characters and every digit that follows
TokenAt(s, i) == SubSeq(s, i, SetMax({j \in (i + 2)..Len(s) : \A k \in (i + 2)..j : s[k] \in Digits}))

HeaderAt(sheet, c) == CellValue(sheet, header_row, c)

\* C8 as stated: every column whose header cell is text holding a token of two
\* letters and digits has an identifier, the first such token of the cell.
C8_TwoLetterToken == status = "done" => \A c \in min_column(RoomSheet)..max_column(RoomSheet) : (HeaderAt(RoomSheet, c).k = "str" /\ TwoLetterStarts(HeaderAt(RoomSheet, c).s) # {}) => TokenAt(HeaderAt(RoomSheet, c).s, SetMin(TwoLetterStarts(HeaderAt(RoomSheet, c).s))) \in DOMAIN room_mapping

\* every column of the sheet whose header holds an OC token is in the map under
\* the first such token, and the map holds nothing else
MapsOCTokens(sheet, mapping) == /\ (\A c \in min_column(sheet)..max_column(sheet) : (HeaderAt(sheet, c).k = "str" /\ OCStarts(HeaderAt(sheet, c).s) # {}) => (TokenAt(HeaderAt(sheet, c).s, SetMin(OCStarts(HeaderAt(sheet, c).s))) \in DOMAIN mapping /\ mapping[TokenAt(HeaderAt(sheet, c).s, SetMin(OCStarts(HeaderAt(sheet, c).s)))] >= c)) /\ (\A id \in DOMAIN mapping : mapping[id] \in min_column(sheet)..max_column(sheet) /\ HeaderAt(sheet, mapping[id]).k = "str" /\ OCStarts(HeaderAt(sheet, mapping[id]).s) # {} /\ TokenAt(HeaderAt(sheet, mapping[id]).s, SetMin(OCStarts(HeaderAt(sheet, mapping[id]).s))) = id)

\* C8 amended: every column whose header cell is text holding a token of the
\* letters OC followed by one or more digits has an identifier, the first such
\* token of the cell, in the Room, Min and Max sheets alike.
C8_OCToken == status = "done" => MapsOCTokens(RoomSheet, room_mapping) /\ MapsOCTokens(MinSheet, min_mapping) /\ MapsOCTokens(MaxSheet, max_mapping)

\* a header with text before its first OC token and a second token after it
\* has given its column the first token
C8_Witness == status = "done" /\ \E c \in min_column(RoomSheet)..max_column(RoomSheet) : HeaderAt(RoomSheet, c) = Str(H_Two) /\ H_OC12 \in DOMAIN room_mapping /\ room_mapping[H_OC12] = c /\ H_OC11 \in DOMAIN room_mapping /\ room_mapping[H_OC11] # c

\* the columns of the sheet whose header carries the identifier
ColumnsOf(sheet, id) == {c \in min_column(sheet)..max_column(sheet) : HeaderAt(sheet, c).k = "str" /\ OCStarts(HeaderAt(sheet, c).s) # {} /\ TokenAt(HeaderAt(sheet, c).s, SetMin(OCStarts(HeaderAt(sheet, c).s))) = id}

\* the value C9 expects at p: the verdict on the sensed value and the cells of
\* row p[1] in the rightmost columns lc and uc, or the sensed value itself
Expected(p, lc, uc) == IF IsNumber(SensedAt(p)) /\ IsNumber(CellValue(MinSheet, p[1], lc)) /\ IsNumber(CellValue(MaxSheet, p[1], uc)) THEN Classify(SensedAt(p), CellValue(MinSheet, p[1], lc), CellValue(MaxSheet, p[1], uc)) ELSE SensedAt(p)

\* C9: the bounds of a data cell whose column carries an identifier are the
\* cells of the same row in the Min and the Max sheet, in the rightmost column
\* whose header carries that identifier.
C9_BoundsByIdentifier == status = "done" => \A p \in DataCells : (IdAt(p) # NoMatch /\ ColumnsOf(MinSheet, IdAt(p)) # {} /\ ColumnsOf(MaxSheet, IdAt(p)) # {}) => ResultAt(p) = Expected(p, SetMax(ColumnsOf(MinSheet, IdAt(p))), SetMax(ColumnsOf(MaxSheet, IdAt(p))))

\* an identifier heads two columns of the Min sheet, whose cells differ, and the
\* sensed value is under the right one only
C9_Witness == status = "done" /\ \E p \in DataCells : Applies(p) /\ Cardinality(ColumnsOf(MinSheet, IdAt(p))) = 2 /\ CellValue(MinSheet, p[1], SetMin(ColumnsOf(MinSheet, IdAt(p)))).n < SensedAt(p).n /\ SensedAt(p).n < LowerAt(p).n /\ IsLow(ResultAt(p))

\* the second and later runs agree with the first: the sheets of the required
\* roles, one sheet named Result, and the values and fills of the Result sheet
SameAsFirst == /\ status = "done" /\ (\A role \in {"Room Data", "Min", "Max"} : detected[role] = first.detected[role]) /\ Cardinality({i \in 1..Len(output) : output[i].title = ResultTitle}) = 1 /\ ResultSheet(output).title = ResultTitle /\ ResultSheet(output) = first.result /\ SavedFills(output, fills) = first.fills

\* C10 as stated: a run on the workbook a successful run produced resolves the
\* same sheets for the required roles, leaves one Result sheet, and gives the
\* same Result values and fills.
C10_RerunIdempotent == (runs >= 2 /\ status \in {"done", "failed"}) => SameAsFirst

\* Where a second run does reproduce the first: on every workbook in which no
\* required role is resolved to a sheet named Result that the workbook already
\* holds, and no sheet is named Result in another letter case.
RerunWithoutOldResult == (runs >= 2 /\ status \in {"done", "failed"} /\ (\A role \in {"Room Data", "Min", "Max"} : first.detected[role] # ResultTitle) /\ \A i \in 1..Len(file) : lower(file[i].title) = lower(ResultTitle) => file[i].title = ResultTitle) => SameAsFirst

====
